---- MODULE Spec2Model ----
(***************************************************************************)
(* Model of BacklogClient (src/src/backlog-client.ts): the seven           *)
(* operations over the injected remote API client, the pagination loop of  *)
(* getIssues and the retry loop of retryApiCall.                           *)
(*                                                                         *)
(* A call is cut at its await points: the action that starts it runs the   *)
(* code up to the first remote request, and each resolution, rejection or  *)
(* timer expiry runs the code up to the next await, the return or the      *)
(* throw.  Spec follows one call at a time, FairSpec adds that page        *)
(* requests are answered, SpecTwoCalls interleaves two calls at their      *)
(* awaits.                                                                 *)
(***************************************************************************)
EXTENDS Integers, Sequences, FiniteSets, TLC

(* ---------------- bounds of the model ---------------- *)
MaxIssues == 250
MaxWikis == 101
MaxId == 2

(* ---------------- program constants ---------------- *)
count == 100
waitTime == 15000
maxRetries == 3

(* ---------------- JavaScript values ---------------- *)
\* A string is the sequence of its words; the empty string is <<>>.
Undefined == [t |-> "undefined", v |-> <<>>]
Null == [t |-> "null", v |-> <<>>]
Str(s) == [t |-> "string", v |-> s]
EmptyString == Str(<<>>)

\* JavaScript truthiness of undefined, null and strings.
Truthy(x) == x.t = "string" /\ x.v # <<>>

\* Mutant: only undefined is defaulted, null passes through.
OrEmpty_undefinedOnly(x) == IF x = Undefined THEN EmptyString ELSE x

\* The expression  x || ''
OrEmpty(x) == IF Truthy(x) THEN x ELSE EmptyString

\* String.prototype.includes: pat occurs in s as a contiguous run.
Includes(s, pat) ==
    \E i \in 0..(Len(s) - Len(pat)) :
        \A j \in 1..Len(pat) : s[i + j] = pat[j]

RateLimitText == <<"Too", "Many", "Requests">>

\* Mutant: every error that has a message is taken for a rate-limit error.
IsRateLimit_anyMessage(error) == Truthy(error.message)

\* The condition  error.message && error.message.includes('Too Many Requests')
IsRateLimit(error) ==
    Truthy(error.message) /\ Includes(error.message.v, RateLimitText)

(* ---------------- what the remote can answer ---------------- *)
Messages ==
    { Undefined,
      EmptyString,
      Str(<<"Too", "Many", "Requests">>),
      Str(<<"429", "Too", "Many", "Requests", "retry", "later">>),
      Str(<<"Too", "Many">>),
      Str(<<"too", "many", "requests">>),
      Str(<<"Not", "Found">>) }

\* The n-th request of a call failed with message m.
RemoteError(n, m) == [id |-> n, message |-> m]

FieldValues == { Undefined, Null, EmptyString, Str(<<"some", "text">>) }
FieldOf(i) ==
    CASE i % 4 = 0 -> Undefined
      [] i % 4 = 1 -> Str(<<"text", ToString(i)>>)
      [] i % 4 = 2 -> Null
      [] OTHER     -> EmptyString

Rules == { Str(<<"markdown">>), Str(<<"backlog">>), Str(<<"Markdown">>), Undefined }

Ids == 1..MaxId
IssueCounts == {0, 1, 40, 99, 100, 101, 140, 200, MaxIssues}
WikiCounts == {0, 2, 100, MaxWikis}
Texts == { EmptyString, Str(<<"new", "text">>) }

RemoteIssue(i, d) ==
    [id |-> i, issueKey |-> <<"PRJ", i>>, summary |-> <<"summary", i>>,
     description |-> d, status |-> "open"]
RemoteWiki(i, c) ==
    [id |-> i, name |-> <<"page", i>>, content |-> c, projectId |-> 1]
RemoteProject(k, r) ==
    [id |-> 1, projectKey |-> k, name |-> <<"Project", k>>,
     textFormattingRule |-> r, archived |-> FALSE]

Min(a, b) == IF a < b THEN a ELSE b

\* The page the remote serves for {offset, count} when it holds n issues.
RemotePage(n, off, cnt) ==
    [i \in 1..(IF n > off THEN Min(cnt, n - off) ELSE 0) |->
        RemoteIssue(off + i, FieldOf(off + i))]

RemoteWikis(n) == [i \in 1..n |-> RemoteWiki(i, FieldOf(i))]

(* ---------------- mapping of remote records ---------------- *)
MapIssue(issue) ==
    [id |-> issue.id, issueKey |-> issue.issueKey, summary |-> issue.summary,
     description |-> OrEmpty(issue.description)]

MapWiki(wiki) ==
    [id |-> wiki.id, name |-> wiki.name, content |-> OrEmpty(wiki.content)]

MapProject(project) ==
    [id |-> project.id, projectKey |-> project.projectKey, name |-> project.name,
     textFormattingRule |-> project.textFormattingRule]

\* issues.map(...) and wikis.map(...)
MapIssues(issues) == [i \in 1..Len(issues) |-> MapIssue(issues[i])]

\* Mutant: no more than one page of wikis is mapped.
MapWikis_firstPage(wikis) ==
    [i \in 1..(IF Len(wikis) < count THEN Len(wikis) ELSE count) |-> MapWiki(wikis[i])]

MapWikis(wikis) == [i \in 1..Len(wikis) |-> MapWiki(wikis[i])]

(* ---------------- state ---------------- *)
VARIABLES
    op,            \* the operation in progress, or "none"
    pc,            \* "idle", "await" (a request is outstanding), "waiting" (timer), "done"
    arg,           \* the call's arguments
    attempt,       \* retryApiCall: loop counter
    lastError,     \* retryApiCall: lastError
    offset,        \* getIssues: offset
    hasMoreIssues, \* getIssues: hasMoreIssues
    allIssues,     \* getIssues: allIssues
    trace,         \* what the call did so far: requests, responses, waits, log entries
    outcome,       \* how the call ended: returned value or thrown error
    remoteIssues,  \* number of issues the remote holds
    remoteChanged, \* the remote's issue set changed during the current call
    remoteStore,   \* the fields of the issues and wikis that the remote holds
    suspended      \* the locals of another call in flight, parked at an await

vars == <<op, pc, arg, attempt, lastError, offset, hasMoreIssues, allIssues,
          trace, outcome, remoteIssues, remoteChanged, remoteStore, suspended>>

NoError == [id |-> 0, message |-> Undefined]
NoArg == [id |-> 0, text |-> Undefined]
Pending == [kind |-> "pending", value |-> <<>>, error |-> NoError]
Returned(v) == [kind |-> "return", value |-> v, error |-> NoError]
Thrown(e) == [kind |-> "throw", value |-> <<>>, error |-> e]

\* Events of the trace.
Request(api, id, params) == [e |-> "request", x |-> [api |-> api, id |-> id, params |-> params]]
Resolved(result) == [e |-> "resolved", x |-> result]
Rejected(error) == [e |-> "rejected", x |-> error]
Wait(ms) == [e |-> "wait", x |-> ms]
Log(level, error) == [e |-> "log", x |-> [level |-> level, error |-> error]]

Events(kind) == SelectSeq(trace, LAMBDA ev : ev.e = kind)
NumRequests == Len(Events("request"))

\* The remote's content before any update.
Baseline ==
    [issue |-> [i \in Ids |-> [summary |-> <<"summary", i>>, description |-> FieldOf(i)]],
     wiki  |-> [i \in Ids |-> [name |-> <<"page", i>>, content |-> FieldOf(i)]]]

\* A partial update: the fields named in the request replace the record's,
\* the others stay.
ApplyPatch(record, params) ==
    [f \in (DOMAIN record) \cup (DOMAIN params) |->
        IF f \in DOMAIN params THEN params[f] ELSE record[f]]

\* The remote's content once the request has succeeded.
RemoteApply(store, request) ==
    CASE request.api = "patchIssue" ->
           [store EXCEPT !.issue[request.id] = ApplyPatch(@, request.params)]
      [] request.api = "patchWiki" ->
           [store EXCEPT !.wiki[request.id] = ApplyPatch(@, request.params)]
      [] OTHER -> store

\* The locals of a call that has not started.
IdleFrame ==
    [op |-> "none", pc |-> "idle", arg |-> NoArg, attempt |-> 0, lastError |-> NoError,
     offset |-> 0, hasMoreIssues |-> FALSE, allIssues |-> <<>>, trace |-> <<>>,
     outcome |-> Pending]

Init ==
    /\ op = "none"
    /\ pc = "idle"
    /\ arg = NoArg
    /\ attempt = 0
    /\ lastError = NoError
    /\ offset = 0
    /\ hasMoreIssues = FALSE
    /\ allIssues = <<>>
    /\ trace = <<>>
    /\ outcome = Pending
    /\ remoteIssues \in IssueCounts
    /\ remoteChanged = FALSE
    /\ remoteStore = Baseline
    /\ suspended = IdleFrame

\* Entry of any operation.
Enter(o, a) ==
    /\ pc = "idle"
    /\ op' = o
    /\ arg' = a
    /\ remoteChanged' = FALSE
    /\ UNCHANGED <<remoteIssues, remoteStore, suspended>>

(* ---------------- getProject ---------------- *)
getProject(projectKey) ==
    /\ Enter("getProject", [id |-> 0, text |-> Str(<<projectKey>>)])
    /\ pc' = "await"
    /\ trace' = << Log("debug", NoError), Request("getProject", projectKey, <<>>) >>
    /\ UNCHANGED <<attempt, lastError, offset, hasMoreIssues, allIssues, outcome>>

\* Mutant: the rule is compared without regard to case.
UsesMarkdown_anyCase(project) ==
    project.textFormattingRule \in { Str(<<"markdown">>), Str(<<"Markdown">>) }

\* The negation of  project.textFormattingRule !== 'markdown'
UsesMarkdown(project) == project.textFormattingRule = Str(<<"markdown">>)

\* new Error(`Project ${projectKey} does not use markdown formatting (uses: ...)`)
ValidationError(project) ==
    [id |-> 0,
     message |-> Str(<<"Project", project.projectKey, "does not use markdown formatting">>
                     \o project.textFormattingRule.v)]

getProject_resolved(project) ==
    /\ op = "getProject" /\ pc = "await"
    /\ pc' = "done"
    /\ IF ~UsesMarkdown(project)
       THEN /\ trace' = trace \o << Resolved(project), Log("error", ValidationError(project)) >>
            /\ outcome' = Thrown(ValidationError(project))
       ELSE /\ trace' = trace \o << Resolved(project), Log("info", NoError) >>
            /\ outcome' = Returned(MapProject(project))
    /\ UNCHANGED <<op, arg, attempt, lastError, offset, hasMoreIssues, allIssues,
                   remoteIssues, remoteChanged,
                   remoteStore, suspended>>

getProject_rejected(error) ==
    /\ op = "getProject" /\ pc = "await"
    /\ pc' = "done"
    /\ trace' = trace \o << Rejected(error), Log("error", error) >>
    /\ outcome' = Thrown(error)
    /\ UNCHANGED <<op, arg, attempt, lastError, offset, hasMoreIssues, allIssues,
                   remoteIssues, remoteChanged,
                   remoteStore, suspended>>

(* ---------------- getIssues ---------------- *)
\* Mutant: the offset is sent one-based.
IssuesRequest_oneBased(projectId, off) ==
    [e |-> "request",
     x |-> [api |-> "getIssues", id |-> projectId,
            params |-> [projectId |-> <<projectId>>, offset |-> off + 1, count |-> count]]]

IssuesRequest(projectId, off) ==
    Request("getIssues", projectId,
            [projectId |-> <<projectId>>, offset |-> off, count |-> count])

\* The request that is outstanding while pc = "await".
Outstanding == Events("request")[NumRequests].x

getIssues(projectId) ==
    /\ Enter("getIssues", [id |-> projectId, text |-> Undefined])
    /\ allIssues' = <<>>
    /\ offset' = 0
    /\ hasMoreIssues' = TRUE
    /\ pc' = "await"
    /\ trace' = << Log("debug", NoError), Log("debug", NoError),
                   IssuesRequest(projectId, 0) >>
    /\ UNCHANGED <<attempt, lastError, outcome>>

\* Mutant: the new page is put in front of the accumulated issues.
Push_front(all, mapped) == mapped \o all

\* allIssues.push(...mappedIssues)
Push(all, mapped) == all \o mapped

\* Mutant: the offset advances one short of a page.
NextOffset_short(off) == off + count - 1

\* offset += count
NextOffset(off) == off + count

\* Mutant: a full page is taken for the last one.
IsLastPage_inclusive(issues) == Len(issues) <= count

\* The test  issues.length < count
IsLastPage(issues) == Len(issues) < count

\* One iteration of the while loop from the resolution of the page request
\* to the next request or to the return.
getIssues_resolved(issues) ==
    /\ op = "getIssues" /\ pc = "await"
    /\ IF Len(issues) = 0
       THEN /\ hasMoreIssues' = FALSE
            /\ pc' = "done"
            /\ trace' = trace \o << Resolved(issues), Log("info", NoError) >>
            /\ outcome' = Returned(allIssues)
            /\ UNCHANGED <<allIssues, offset>>
       ELSE /\ allIssues' = Push(allIssues, MapIssues(issues))
            /\ IF IsLastPage(issues)
               THEN /\ hasMoreIssues' = FALSE
                    /\ pc' = "done"
                    /\ trace' = trace \o << Resolved(issues), Log("debug", NoError),
                                            Log("info", NoError) >>
                    /\ outcome' = Returned(allIssues')
                    /\ UNCHANGED offset
               ELSE /\ offset' = NextOffset(offset)
                    /\ trace' = trace \o << Resolved(issues), Log("debug", NoError),
                                            Log("debug", NoError),
                                            IssuesRequest(arg.id, offset') >>
                    /\ UNCHANGED <<hasMoreIssues, pc, outcome>>
    /\ UNCHANGED <<op, arg, attempt, lastError, remoteIssues, remoteChanged,
                   remoteStore, suspended>>

\* Mutant: the failure is swallowed and the issues fetched so far are returned.
getIssues_rejected_partial(error) ==
    /\ op = "getIssues" /\ pc = "await"
    /\ pc' = "done"
    /\ trace' = trace \o << Rejected(error), Log("error", error) >>
    /\ outcome' = Returned(allIssues)
    /\ UNCHANGED <<op, arg, attempt, lastError, offset, hasMoreIssues, allIssues,
                   remoteIssues, remoteChanged, remoteStore, suspended>>

getIssues_rejected(error) ==
    /\ op = "getIssues" /\ pc = "await"
    /\ pc' = "done"
    /\ trace' = trace \o << Rejected(error), Log("error", error) >>
    /\ outcome' = Thrown(error)
    /\ UNCHANGED <<op, arg, attempt, lastError, offset, hasMoreIssues, allIssues,
                   remoteIssues, remoteChanged,
                   remoteStore, suspended>>

(* ---------------- getWikis ---------------- *)
getWikis(projectId) ==
    /\ Enter("getWikis", [id |-> projectId, text |-> Undefined])
    /\ pc' = "await"
    /\ trace' = << Log("debug", NoError),
                   Request("getWikis", projectId, [projectIdOrKey |-> projectId]) >>
    /\ UNCHANGED <<attempt, lastError, offset, hasMoreIssues, allIssues, outcome>>

getWikis_resolved(wikis) ==
    /\ op = "getWikis" /\ pc = "await"
    /\ pc' = "done"
    /\ trace' = trace \o << Resolved(wikis), Log("info", NoError) >>
    /\ outcome' = Returned(MapWikis(wikis))
    /\ UNCHANGED <<op, arg, attempt, lastError, offset, hasMoreIssues, allIssues,
                   remoteIssues, remoteChanged,
                   remoteStore, suspended>>

getWikis_rejected(error) ==
    /\ op = "getWikis" /\ pc = "await"
    /\ pc' = "done"
    /\ trace' = trace \o << Rejected(error), Log("error", error) >>
    /\ outcome' = Thrown(error)
    /\ UNCHANGED <<op, arg, attempt, lastError, offset, hasMoreIssues, allIssues,
                   remoteIssues, remoteChanged,
                   remoteStore, suspended>>

(* ---------------- retryApiCall and the operations it wraps ---------------- *)
RetryOps == {"getIssue", "updateIssue", "getWiki", "updateWiki"}

\* Mutant: the updates send the other field of the record along, unset.
ApiCall_wholeRecord(o, a) ==
    CASE o = "getIssue"    -> << Log("debug", NoError), Request("getIssue", a.id, <<>>) >>
      [] o = "updateIssue" -> << Log("debug", NoError),
                                 Request("patchIssue", a.id,
                                         [description |-> a.text, summary |-> Undefined]) >>
      [] o = "getWiki"     -> << Log("debug", NoError), Request("getWiki", a.id, <<>>) >>
      [] o = "updateWiki"  -> << Log("debug", NoError),
                                 Request("patchWiki", a.id,
                                         [content |-> a.text, name |-> Undefined]) >>

\* What one invocation of the apiCall closure does up to its await.
ApiCall(o, a) ==
    CASE o = "getIssue"    -> << Log("debug", NoError), Request("getIssue", a.id, <<>>) >>
      [] o = "updateIssue" -> << Log("debug", NoError),
                                 Request("patchIssue", a.id, [description |-> a.text]) >>
      [] o = "getWiki"     -> << Log("debug", NoError), Request("getWiki", a.id, <<>>) >>
      [] o = "updateWiki"  -> << Log("debug", NoError),
                                 Request("patchWiki", a.id, [content |-> a.text]) >>

\* Mutant: the loop stops one attempt early.
LoopCondition_strict(a) == a < maxRetries

\* Mutant: the loop allows one attempt too many.
LoopCondition_extra(a) == a <= maxRetries + 1

\* The loop condition  attempt <= maxRetries
LoopCondition(a) == a <= maxRetries

\* The for loop from its condition: another attempt, or the throw after the loop.
RetryLoop(o, a, att, lastErr, tr) ==
    IF LoopCondition(att)
    THEN /\ pc' = "await"
         /\ trace' = tr \o ApiCall(o, a)
         /\ outcome' = outcome
    ELSE /\ pc' = "done"
         /\ trace' = tr
         /\ outcome' = Thrown(lastErr)

retryApiCall(o, a) ==
    /\ Enter(o, a)
    /\ attempt' = 0
    /\ lastError' = NoError
    /\ RetryLoop(o, a, 0, NoError, <<>>)
    /\ UNCHANGED <<offset, hasMoreIssues, allIssues>>

getIssue(issueId) == retryApiCall("getIssue", [id |-> issueId, text |-> Undefined])
updateIssue(issueId, description) == retryApiCall("updateIssue", [id |-> issueId, text |-> description])
getWiki(wikiId) == retryApiCall("getWiki", [id |-> wikiId, text |-> Undefined])
updateWiki(wikiId, content) == retryApiCall("updateWiki", [id |-> wikiId, text |-> content])

\* The rest of the apiCall closure after its await resolved with result.
ApiCallResult(o, result) ==
    CASE o = "getIssue"    -> MapIssue(result)
      [] o = "getWiki"     -> MapWiki(result)
      [] OTHER             -> Undefined

ApiCallLog(o) ==
    IF o \in {"updateIssue", "updateWiki"} THEN << Log("info", NoError) >> ELSE <<>>

\* Mutant: the result is awaited but not returned, and the loop goes on.
retryApiCall_resolved_noReturn(result) ==
    /\ op \in RetryOps /\ pc = "await"
    /\ attempt' = attempt + 1
    /\ RetryLoop(op, arg, attempt', lastError,
                 trace \o << Resolved(result) >> \o ApiCallLog(op))
    /\ remoteStore' = RemoteApply(remoteStore, Outstanding)
    /\ UNCHANGED <<op, arg, lastError, offset, hasMoreIssues, allIssues,
                   remoteIssues, remoteChanged, suspended>>

\* return await apiCall()
retryApiCall_resolved(result) ==
    /\ op \in RetryOps /\ pc = "await"
    /\ pc' = "done"
    /\ trace' = trace \o << Resolved(result) >> \o ApiCallLog(op)
    /\ outcome' = Returned(ApiCallResult(op, result))
    /\ remoteStore' = RemoteApply(remoteStore, Outstanding)
    /\ UNCHANGED <<op, arg, attempt, lastError, offset, hasMoreIssues, allIssues,
                   remoteIssues, remoteChanged, suspended>>

\* The catch block.
retryApiCall_rejected(error) ==
    /\ op \in RetryOps /\ pc = "await"
    /\ lastError' = error
    /\ IF IsRateLimit(error)
       THEN /\ pc' = "waiting"
            /\ trace' = trace \o << Rejected(error), Log("warn", error), Wait(waitTime) >>
            /\ UNCHANGED outcome
       ELSE /\ pc' = "done"
            /\ trace' = trace \o << Rejected(error) >>
            /\ outcome' = Thrown(error)
    /\ UNCHANGED <<op, arg, attempt, offset, hasMoreIssues, allIssues,
                   remoteIssues, remoteChanged,
                   remoteStore, suspended>>

\* The timer of the wait expires: continue, attempt++, loop condition.
retryApiCall_timeout ==
    /\ op \in RetryOps /\ pc = "waiting"
    /\ attempt' = attempt + 1
    /\ RetryLoop(op, arg, attempt', lastError, trace)
    /\ UNCHANGED <<op, arg, lastError, offset, hasMoreIssues, allIssues,
                   remoteIssues, remoteChanged,
                   remoteStore, suspended>>

(* ---------------- environment ---------------- *)
\* The caller has received the outcome; the call's locals are gone.  With no
\* other call in flight the next call is followed from the remote's original
\* content.
Finish ==
    /\ pc = "done"
    /\ op' = "none"
    /\ pc' = "idle"
    /\ arg' = NoArg
    /\ attempt' = 0
    /\ lastError' = NoError
    /\ offset' = 0
    /\ hasMoreIssues' = FALSE
    /\ allIssues' = <<>>
    /\ trace' = <<>>
    /\ outcome' = Pending
    /\ remoteChanged' = FALSE
    /\ remoteStore' = IF suspended.pc = "idle" THEN Baseline ELSE remoteStore
    /\ UNCHANGED <<remoteIssues, suspended>>

\* Issues are added to or deleted from the remote while a request is outstanding.
RemoteChange ==
    /\ pc = "await"
    /\ remoteIssues' \in IssueCounts \ {remoteIssues}
    /\ remoteChanged' = TRUE
    /\ UNCHANGED <<op, pc, arg, attempt, lastError, offset, hasMoreIssues, allIssues,
                   trace, outcome, remoteStore, suspended>>

Next ==
    \/ \E k \in {"PRJ"} : getProject(k)
    \/ \E r \in Rules : getProject_resolved(RemoteProject(arg.text.v[1], r))
    \/ \E m \in Messages : getProject_rejected(RemoteError(NumRequests, m))
    \/ \E p \in Ids : getIssues(p)
    \/ getIssues_resolved(RemotePage(remoteIssues, Outstanding.params.offset,
                                     Outstanding.params.count))
    \/ \E m \in Messages : getIssues_rejected(RemoteError(NumRequests, m))
    \/ \E p \in Ids : getWikis(p)
    \/ \E n \in WikiCounts : getWikis_resolved(RemoteWikis(n))
    \/ \E m \in Messages : getWikis_rejected(RemoteError(NumRequests, m))
    \/ \E i \in Ids : getIssue(i)
    \/ \E i \in Ids, d \in Texts : updateIssue(i, d)
    \/ \E w \in Ids : getWiki(w)
    \/ \E w \in Ids, c \in Texts : updateWiki(w, c)
    \/ \E v \in FieldValues :
          retryApiCall_resolved(IF op \in {"getWiki", "updateWiki"}
                                THEN RemoteWiki(arg.id, v) ELSE RemoteIssue(arg.id, v))
    \/ \E m \in Messages : retryApiCall_rejected(RemoteError(NumRequests, m))
    \/ retryApiCall_timeout
    \/ RemoteChange
    \/ Finish

Spec == Init /\ [][Next]_vars

\* The remote answers the outstanding page request of getIssues.
GetIssuesResponds ==
    \/ getIssues_resolved(RemotePage(remoteIssues, Outstanding.params.offset,
                                     Outstanding.params.count))
    \/ \E m \in Messages : getIssues_rejected(RemoteError(NumRequests, m))

\* Every page request completes.
FairSpec == Spec /\ WF_vars(GetIssuesResponds)

(* ---------------- two calls in flight ---------------- *)
\* The locals of the call that is running.
Locals ==
    [op |-> op, pc |-> pc, arg |-> arg, attempt |-> attempt, lastError |-> lastError,
     offset |-> offset, hasMoreIssues |-> hasMoreIssues, allIssues |-> allIssues,
     trace |-> trace, outcome |-> outcome]

\* Mutant: the attempt counter is a field of the client, shared by its calls.
Resume_sharedAttempt(frame) == [frame EXCEPT !.attempt = attempt]

\* What a call finds in its locals when it resumes after an await: they are
\* declared inside the methods, one set per call.
Resume(frame) == frame

\* The running call is parked at its await (or has not started, or is over)
\* and the other call runs: it starts, or resumes where it was parked.
Switch ==
    /\ pc # "idle" \/ suspended.pc # "idle"
    /\ suspended' = Locals
    /\ LET f == Resume(suspended) IN
         /\ op' = f.op
         /\ pc' = f.pc
         /\ arg' = f.arg
         /\ attempt' = f.attempt
         /\ lastError' = f.lastError
         /\ offset' = f.offset
         /\ hasMoreIssues' = f.hasMoreIssues
         /\ allIssues' = f.allIssues
         /\ trace' = f.trace
         /\ outcome' = f.outcome
    /\ UNCHANGED <<remoteIssues, remoteChanged, remoteStore>>

\* What the remote answers while two calls are followed.
TwoCallMessages == { Str(<<"Too", "Many", "Requests">>), Str(<<"Not", "Found">>) }
TwoCallFields == { Null, Str(<<"some", "text">>) }
TwoCallRules == { Str(<<"markdown">>), Str(<<"backlog">>) }

InitTwoCalls == Init /\ remoteIssues = 140

NextTwoCalls ==
    \/ getProject("PRJ")
    \/ \E r \in TwoCallRules : getProject_resolved(RemoteProject(arg.text.v[1], r))
    \/ \E m \in TwoCallMessages : getProject_rejected(RemoteError(NumRequests, m))
    \/ getIssues(1)
    \/ getIssues_resolved(RemotePage(remoteIssues, Outstanding.params.offset,
                                     Outstanding.params.count))
    \/ \E m \in TwoCallMessages : getIssues_rejected(RemoteError(NumRequests, m))
    \/ getWikis(1)
    \/ getWikis_resolved(RemoteWikis(2))
    \/ \E m \in TwoCallMessages : getWikis_rejected(RemoteError(NumRequests, m))
    \/ getIssue(1)
    \/ \E d \in Texts : updateIssue(1, d)
    \/ getWiki(1)
    \/ \E c \in Texts : updateWiki(1, c)
    \/ \E v \in TwoCallFields :
          retryApiCall_resolved(IF op \in {"getWiki", "updateWiki"}
                                THEN RemoteWiki(arg.id, v) ELSE RemoteIssue(arg.id, v))
    \/ \E m \in TwoCallMessages : retryApiCall_rejected(RemoteError(NumRequests, m))
    \/ retryApiCall_timeout
    \/ Finish
    \/ Switch

SpecTwoCalls == InitTwoCalls /\ [][NextTwoCalls]_vars

(* ======================= properties ======================= *)
\* The trace without its log entries.
Core == SelectSeq(trace, LAMBDA ev : ev.e # "log")
Rejections == Events("rejected")
Waits == Events("wait")
InRetry == op \in RetryOps

\* The remote's messages that contain 'Too Many Requests'.
SignatureMessages ==
    { Str(<<"Too", "Many", "Requests">>),
      Str(<<"429", "Too", "Many", "Requests", "retry", "later">>) }
CarriesSignature(error) == error.message \in SignatureMessages
AllRateLimited == \A i \in 1..Len(Rejections) : CarriesSignature(Rejections[i].x)

\* What the wrapped call yields for the remote record r.
Defaulted(x) == IF x \in {Undefined, Null} THEN EmptyString ELSE x
SuccessValue(o, r) ==
    CASE o = "getIssue" -> [id |-> r.id, issueKey |-> r.issueKey, summary |-> r.summary,
                            description |-> Defaulted(r.description)]
      [] o = "getWiki"  -> [id |-> r.id, name |-> r.name, content |-> Defaulted(r.content)]
      [] OTHER          -> Undefined

\* Core is k rounds of (attempt, rejection, 15000ms wait) followed by `tail` more events.
RoundsThen(k, tail) ==
    /\ Len(Core) = 3 * k + tail
    /\ \A i \in 1..Len(Core) :
         CASE i % 3 = 1 -> Core[i].e = "request"
           [] i % 3 = 2 -> Core[i].e = (IF i <= 3 * k THEN "rejected" ELSE "resolved")
           [] OTHER     -> Core[i].e = "wait" /\ Core[i].x = 15000

NonRateLimitErrorPropagates ==
    InRetry =>
        \A i \in 1..Len(Core) :
            (Core[i].e = "rejected" /\ ~CarriesSignature(Core[i].x)) =>
                /\ i = Len(Core)
                /\ pc = "done"
                /\ outcome = Thrown(Core[i].x)

NonRateLimitErrorPropagates_witness ==
    /\ InRetry /\ pc = "done" /\ outcome.kind = "throw"
    /\ ~CarriesSignature(outcome.error)
    /\ Truthy(outcome.error.message)
    /\ NumRequests = 3 /\ Len(Waits) = 2

\* C3: the retry helper never makes more than maxRetries+1 attempts, and
\* when all maxRetries+1 attempts fail with a rate-limit error the caller gets
\* the error of the last attempt.
RetryAttemptsBounded ==
    InRetry =>
        /\ NumRequests <= maxRetries + 1
        /\ (pc = "done" /\ AllRateLimited /\ Len(Rejections) = maxRetries + 1) =>
              /\ outcome = Thrown(Rejections[maxRetries + 1].x)
              /\ outcome.error.id = maxRetries + 1

RetryAttemptsBounded_witness ==
    /\ InRetry /\ pc = "done" /\ AllRateLimited
    /\ Len(Rejections) = maxRetries + 1
    /\ outcome.kind = "throw"
    /\ Rejections[1].x.message # Rejections[maxRetries + 1].x.message

\* C4: the retry helper waits only when a rate-limited attempt still has
\* attempts remaining, so that every wait is followed by another attempt: a
\* finished call has made fewer waits than attempts.
WaitOnlyWithAttemptsRemaining ==
    InRetry =>
        /\ pc = "waiting" => NumRequests < maxRetries + 1
        /\ pc = "done" => Len(Waits) <= NumRequests - 1

(* ---------------- getIssues ---------------- *)
InGetIssues == op = "getIssues"
Requests == Events("request")
\* The pages received so far, in the order received.
Pages == [i \in 1..Len(Events("resolved")) |-> Events("resolved")[i].x]

RECURSIVE Concat(_)
Concat(ps) ==
    IF ps = <<>> THEN <<>>
    ELSE Concat(SubSeq(ps, 1, Len(ps) - 1)) \o ps[Len(ps)]

RECURSIVE SumLen(_)
SumLen(ps) ==
    IF ps = <<>> THEN 0
    ELSE SumLen(SubSeq(ps, 1, Len(ps) - 1)) + Len(ps[Len(ps)])

\* C5: getIssues issues no request after the first page that has fewer than
\* 100 items: that page is the last thing that happened and the call is over;
\* and what it returns is the concatenation of the mapped items of all pages
\* received, in the order received, of length the sum of the page lengths.
IssuesAreConcatenationOfPages ==
    InGetIssues =>
        /\ \A i \in 1..Len(Pages) :
              Len(Pages[i]) < 100 =>
                  /\ i = Len(Pages)
                  /\ pc = "done"
                  /\ Core[Len(Core)].e = "resolved"
                  /\ NumRequests = i
        /\ (pc = "done" /\ outcome.kind = "return") =>
              /\ outcome.value =
                    [i \in 1..SumLen(Pages) |-> SuccessValue("getIssue", Concat(Pages)[i])]
              /\ Len(outcome.value) = SumLen(Pages)

IssuesAreConcatenationOfPages_witness ==
    /\ InGetIssues /\ pc = "done" /\ outcome.kind = "return"
    /\ Len(Pages) = 2
    /\ Len(Pages[1]) = 100 /\ Len(Pages[2]) = 40
    /\ Len(outcome.value) = 140

\* C6: the k-th request of getIssues carries offset 100*(k-1) and count 100
\* for the given project; requests and responses alternate, so at most one
\* request is outstanding, and every request after the first follows a page
\* of exactly 100 items; against a remote holding N unchanged issues a
\* successful call makes N div 100 + 1 requests and returns N issues.
PaginationRequests ==
    InGetIssues =>
        /\ \A k \in 1..NumRequests :
              Requests[k].x =
                  [api |-> "getIssues", id |-> arg.id,
                   params |-> [projectId |-> <<arg.id>>, offset |-> 100 * (k - 1),
                               count |-> 100]]
        /\ \A i \in 1..Len(Core) :
              IF i % 2 = 1 THEN Core[i].e = "request"
              ELSE Core[i].e \in {"resolved", "rejected"}
        /\ \A k \in 2..NumRequests :
              Core[2 * k - 2].e = "resolved" /\ Len(Core[2 * k - 2].x) = 100
        /\ (pc = "done" /\ outcome.kind = "return" /\ ~remoteChanged) =>
              /\ NumRequests = (remoteIssues \div 100) + 1
              /\ Len(outcome.value) = remoteIssues
        /\ (pc = "done" /\ Len(Pages) = 2 /\ Len(Pages[2]) = 40) =>
              /\ NumRequests = 2
              /\ Requests[1].x.params.offset = 0
              /\ Requests[2].x.params.offset = 100
              /\ Len(outcome.value) = 140

PaginationRequests_witness ==
    /\ InGetIssues /\ pc = "done" /\ outcome.kind = "return" /\ ~remoteChanged
    /\ remoteIssues = 200
    /\ NumRequests = 3
    /\ Pages[3] = <<>>

\* C7: when the first page returned to getIssues is empty, the call is over
\* with the empty sequence as its result after exactly one request, at
\* offset 0.
EmptyFirstPage ==
    (InGetIssues /\ Len(Pages) >= 1 /\ Pages[1] = <<>>) =>
        /\ pc = "done"
        /\ outcome = Returned(<<>>)
        /\ NumRequests = 1
        /\ Requests[1].x.params.offset = 0
        /\ Len(Core) = 2

EmptyFirstPage_witness ==
    /\ InGetIssues /\ pc = "done" /\ Pages = << <<>> >>
    /\ outcome.kind = "return"

(* ---------------- getProject ---------------- *)
\* C8: getProject issues exactly one remote request and never waits; when
\* the remote project's rule is not 'markdown' it raises a validation error
\* and returns no value, when it is 'markdown' it returns the projection
\* {id, projectKey, name, textFormattingRule} of the remote's values, and when
\* the request fails (rate-limit errors included) it raises that error.
ProjectValidated ==
    op = "getProject" =>
        /\ NumRequests = 1
        /\ Waits = <<>>
        /\ pc = "done" =>
              /\ Len(Core) = 2
              /\ Requests[1].x.api = "getProject"
              /\ Requests[1].x.id = arg.text.v[1]
              /\ IF Core[2].e = "rejected"
                 THEN outcome = Thrown(Core[2].x)
                 ELSE LET project == Core[2].x IN
                      IF project.textFormattingRule = Str(<<"markdown">>)
                      THEN outcome =
                             Returned([id |-> project.id,
                                       projectKey |-> project.projectKey,
                                       name |-> project.name,
                                       textFormattingRule |-> Str(<<"markdown">>)])
                      ELSE /\ outcome.kind = "throw"
                           /\ outcome.value = <<>>
                           /\ Includes(outcome.error.message.v,
                                       <<"does not use markdown formatting">>)

ProjectValidated_witness ==
    /\ op = "getProject" /\ pc = "done"
    /\ Core[2].e = "resolved"
    /\ Core[2].x.textFormattingRule = Str(<<"Markdown">>)
    /\ outcome.kind = "throw"

(* ---------------- all operations ---------------- *)
\* C9: whenever an operation propagates an error to its caller, a log entry
\* (warning or error) for that error was emitted earlier in the same call.
ErrorLoggedBeforePropagation ==
    (pc = "done" /\ outcome.kind = "throw") =>
        \E i \in 1..Len(trace) :
            /\ trace[i].e = "log"
            /\ trace[i].x.level \in {"warn", "error"}
            /\ trace[i].x.error = outcome.error

\* C10: every issue returned by getIssues or getIssue has a string as its
\* description and every wiki returned by getWikis or getWiki a string as its
\* content: the empty string when the remote field is undefined or null, the
\* remote's string otherwise.
IsDefaultOf(field, remote) ==
    /\ field.t = "string"
    /\ remote \in {Undefined, Null} => field = EmptyString
    /\ remote.t = "string" => field = remote

FieldsAreStrings ==
    (pc = "done" /\ outcome.kind = "return") =>
        /\ op = "getIssues" =>
              /\ Len(outcome.value) = SumLen(Pages)
              /\ \A i \in 1..Len(outcome.value) :
                    IsDefaultOf(outcome.value[i].description, Concat(Pages)[i].description)
        /\ op = "getIssue" =>
              IsDefaultOf(outcome.value.description, Core[Len(Core)].x.description)
        /\ op = "getWikis" =>
              /\ Len(outcome.value) = Len(Core[2].x)
              /\ \A i \in 1..Len(outcome.value) :
                    IsDefaultOf(outcome.value[i].content, Core[2].x[i].content)
        /\ op = "getWiki" =>
              IsDefaultOf(outcome.value.content, Core[Len(Core)].x.content)

FieldsAreStrings_witness ==
    /\ op = "getIssues" /\ pc = "done" /\ outcome.kind = "return"
    /\ Len(outcome.value) = 140
    /\ \E i \in 1..140 : Concat(Pages)[i].description = Null
    /\ \E i \in 1..140 : Concat(Pages)[i].description = Undefined
    /\ \E i \in 1..140 : Truthy(Concat(Pages)[i].description)
(* ---------------- getWikis ---------------- *)
\* C11: getWikis issues exactly one remote request per call, whatever the
\* number of wikis and whatever the outcome, and never waits; on success it
\* returns one mapped wiki per remote result, in the remote's order, and on
\* failure it raises the request's error.
WikisInOneRequest ==
    op = "getWikis" =>
        /\ NumRequests = 1
        /\ Waits = <<>>
        /\ Requests[1].x =
              [api |-> "getWikis", id |-> arg.id, params |-> [projectIdOrKey |-> arg.id]]
        /\ pc = "await" => Len(Core) = 1
        /\ pc = "done" =>
              /\ Len(Core) = 2
              /\ IF Core[2].e = "rejected"
                 THEN outcome = Thrown(Core[2].x)
                 ELSE /\ outcome.kind = "return"
                      /\ Len(outcome.value) = Len(Core[2].x)
                      /\ \A i \in 1..Len(Core[2].x) :
                            outcome.value[i] = SuccessValue("getWiki", Core[2].x[i])

WikisInOneRequest_witness ==
    /\ op = "getWikis" /\ pc = "done" /\ outcome.kind = "return"
    /\ Len(outcome.value) = MaxWikis
    /\ Len(outcome.value) > 100

(* ---------------- updateIssue and updateWiki ---------------- *)
InUpdate == op \in {"updateIssue", "updateWiki"}
Succeeded == Len(Events("resolved")) >= 1

\* The remote's content when the one field of the one record has been set.
BaselineWith(o, id, text) ==
    IF o = "updateIssue"
    THEN [Baseline EXCEPT !.issue[id].description = text]
    ELSE [Baseline EXCEPT !.wiki[id].content = text]

\* C12: every request of updateIssue is a patch of the given issue that
\* carries the description and nothing else, every request of updateWiki a
\* patch of the given wiki that carries the content and nothing else, retries
\* included; so the remote differs from what it was before the call in that
\* one field of that one record at most, and not at all while no attempt
\* has succeeded.
UpdateTouchesOneField ==
    /\ op = "updateIssue" =>
          \A k \in 1..NumRequests :
              /\ Requests[k].x.api = "patchIssue"
              /\ Requests[k].x.id = arg.id
              /\ DOMAIN Requests[k].x.params = {"description"}
              /\ Requests[k].x.params.description = arg.text
    /\ op = "updateWiki" =>
          \A k \in 1..NumRequests :
              /\ Requests[k].x.api = "patchWiki"
              /\ Requests[k].x.id = arg.id
              /\ DOMAIN Requests[k].x.params = {"content"}
              /\ Requests[k].x.params.content = arg.text
    /\ InUpdate =>
          remoteStore = (IF Succeeded THEN BaselineWith(op, arg.id, arg.text) ELSE Baseline)
    /\ (InUpdate /\ pc = "done" /\ outcome.kind = "throw") => remoteStore = Baseline

UpdateTouchesOneField_witness ==
    /\ op = "updateIssue" /\ pc = "done" /\ outcome.kind = "return"
    /\ NumRequests = 3
    /\ Requests[1] = Requests[3]
    /\ remoteStore # Baseline
    /\ remoteStore.issue[arg.id].description = arg.text

(* ---------------- getIssues: failures ---------------- *)
\* C14: when a page request of getIssues fails, with whatever error, that
\* is the last thing that happens: no wait and no further request follow,
\* the error is raised to the caller, and no issue is returned.
PageFailureEndsGetIssues ==
    InGetIssues =>
        /\ Waits = <<>>
        /\ \A i \in 1..Len(Core) :
              Core[i].e = "rejected" =>
                  /\ i = Len(Core)
                  /\ pc = "done"
                  /\ NumRequests = Len(Pages) + 1
                  /\ outcome = Thrown(Core[i].x)
                  /\ outcome.value = <<>>

PageFailureEndsGetIssues_witness ==
    /\ InGetIssues /\ pc = "done" /\ outcome.kind = "throw"
    /\ CarriesSignature(outcome.error)
    /\ Len(Pages) = 2
    /\ Len(allIssues) = 200

(* ---------------- updates: one success ---------------- *)
\* C16: in updateIssue and updateWiki at most one patch request succeeds per
\* call and it is the last request sent: the call is over with it; a call
\* that returns has sent one patch request per rate-limited failure plus the
\* one that succeeded.
OnePatchSucceeds ==
    InUpdate =>
        /\ \A k \in 1..NumRequests :
              Requests[k].x.api = (IF op = "updateIssue" THEN "patchIssue" ELSE "patchWiki")
        /\ Len(Events("resolved")) <= 1
        /\ Succeeded =>
              /\ pc = "done"
              /\ outcome.kind = "return"
              /\ Core[Len(Core)].e = "resolved"
              /\ Core[Len(Core) - 1].e = "request"
        /\ (pc = "done" /\ outcome.kind = "return") =>
              /\ Len(Events("resolved")) = 1
              /\ AllRateLimited
              /\ NumRequests = Len(Rejections) + 1
              /\ outcome.value = Undefined

OnePatchSucceeds_witness ==
    /\ InUpdate /\ pc = "done" /\ outcome.kind = "return"
    /\ Len(Rejections) = 2
    /\ NumRequests = 3
(* ---------------- getIssues: termination ---------------- *)
\* While every page received so far had 100 items and no request failed,
\* another request is outstanding: the loop has no bound of its own.
FullPagesContinue ==
    (InGetIssues /\ Rejections = <<>> /\ \A i \in 1..Len(Pages) : Len(Pages[i]) = 100) =>
        /\ pc = "await"
        /\ outcome = Pending
        /\ NumRequests = Len(Pages) + 1

\* C15: when every page request completes and the remote, holding a bounded
\* number of issues, comes to serve a page of fewer than 100 items, getIssues
\* completes (returns or raises); and it never completes on a full page: as
\* long as all pages are full it goes on requesting.
GetIssuesCompletes ==
    /\ [](FullPagesContinue)
    /\ (InGetIssues /\ pc = "await") ~> (InGetIssues /\ pc = "done")

GetIssuesCompletes_witness ==
    /\ InGetIssues /\ pc = "done" /\ outcome.kind = "return"
    /\ Len(Pages) = 3
    /\ Len(Pages[1]) = 100 /\ Len(Pages[2]) = 100 /\ Len(Pages[3]) < 100
(* ---------------- calls in flight together ---------------- *)
RateLimitedSoFar ==
    Cardinality({ i \in 1..Len(Rejections) : CarriesSignature(Rejections[i].x) })

\* The running call is where its own requests and responses put it.
RunsAsAlone ==
    /\ InRetry =>
          /\ attempt = Len(Waits) - (IF pc = "waiting" THEN 1 ELSE 0)
          /\ Len(Waits) = RateLimitedSoFar
          /\ NumRequests = Len(Rejections) + Len(Events("resolved"))
                              + (IF pc = "await" THEN 1 ELSE 0)
          /\ NumRequests <= maxRetries + 1
          /\ lastError = (IF Rejections = <<>> THEN NoError
                          ELSE Rejections[Len(Rejections)].x)
          /\ \A k \in 1..NumRequests : Requests[k].x.id = arg.id
          /\ pc = "done" =>
                outcome = (IF Succeeded
                           THEN Returned(SuccessValue(op, Events("resolved")[1].x))
                           ELSE Thrown(Rejections[Len(Rejections)].x))
    /\ InGetIssues =>
          /\ Waits = <<>>
          /\ offset = 100 * Cardinality({ i \in 1..Len(Pages) : Len(Pages[i]) = 100 })
          /\ \A k \in 1..NumRequests : Requests[k].x.params.offset = 100 * (k - 1)
          /\ allIssues = [i \in 1..SumLen(Pages) |-> SuccessValue("getIssue", Concat(Pages)[i])]
          /\ (pc = "done" /\ outcome.kind = "return") => outcome.value = allIssues
    /\ op \in {"getProject", "getWikis"} => (NumRequests = 1 /\ Waits = <<>>)

\* How far a call has got.
Progress(f) ==
    << f.op, f.pc, f.arg.id, f.arg.text, f.attempt, f.lastError, f.offset,
       Len(f.allIssues), Len(f.trace), f.outcome.kind, f.outcome.error >>

\* C13: with two calls of the same client in flight, in every interleaving
\* each call's attempt counter, offset, accumulated result, requests, waits
\* and outcome are those its own responses give it, as if it ran alone; a
\* step of one call changes nothing of the other, so a rate-limited failure
\* of one call neither uses up attempts of the other nor makes it wait.
CallsAreIndependent ==
    /\ [](RunsAsAlone)
    /\ [][Progress(suspended') = Progress(suspended)
             \/ Progress(suspended') = Progress(Locals)]_vars

CallsAreIndependent_witness ==
    /\ suspended.op \in RetryOps /\ suspended.pc = "waiting" /\ suspended.attempt = 1
    /\ InRetry /\ pc = "done" /\ outcome.kind = "return"
    /\ Waits = <<>> /\ NumRequests = 1 /\ attempt = 0
====
